---- MODULE Spec2Model ----
(***************************************************************************)
(* Model of src/server/app.js: the five task handlers of the Express       *)
(* application and the MongoDB collection they share.                      *)
(*                                                                         *)
(* Every handler is an async function: it runs synchronously up to its     *)
(* first await, and each await of a collection call is a point where the   *)
(* other requests' handlers may run.  A request is therefore modelled by   *)
(* one action for the synchronous prologue (destructuring, validation,     *)
(* new ObjectId(id), new Date()) and one action for each awaited call      *)
(* together with the code that follows it up to the next await or the      *)
(* response.  Each collection call is atomic on the collection.            *)
(*                                                                         *)
(* JavaScript values are encoded as tagged strings ("str:a", "bool:true",  *)
(* "arr:[true]", "undefined", "null") so that values of different          *)
(* JavaScript types can be compared.  An ObjectId is a natural number; its *)
(* 24-digit hexadecimal string form is narrowed to one hexadecimal digit.  *)
(***************************************************************************)
EXTENDS Naturals, Sequences, FiniteSets

\* Largest value of the wall clock read by new Date().
MaxTime == 1

\* The connections on which requests arrive, numbered in the order their
\* requests arrive; each carries one request.
Clients == {1, 2, 3}

-----------------------------------------------------------------------------
(* JavaScript values *)

Undefined == "undefined"
Null == "null"
JsTrue == "bool:true"
JsFalse == "bool:false"
EmptyString == "str:"

\* The values !v turns into true.
Falsy == {Undefined, Null, JsFalse, EmptyString, "num:0"}

\* Variant: only undefined and null count as missing.
Truthy_EmptyStringPasses(v) == v \notin {Undefined, Null}

Truthy(v) == v \notin Falsy

\* a || b
Or(a, b) == IF Truthy(a) THEN a ELSE b

\* The elements of a value that is an array (none when it is not one).
ArrayElements(v) == IF v = "arr:[true]" THEN {JsTrue} ELSE {}

\* What the driver's BSON serializer stores for a value (ignoreUndefined is
\* off in new MongoClient(uri)): undefined is written as null.
BsonValue(v) == IF v = Undefined THEN Null ELSE v

-----------------------------------------------------------------------------
(* Inputs *)

\* Request bodies after express.json(); a field that is absent reads as undefined.
Bodies ==
  { [title |-> Undefined, description |-> Undefined, complete |-> Undefined],
    [title |-> EmptyString, description |-> Undefined, complete |-> Undefined],
    [title |-> "str:a", description |-> Undefined, complete |-> Undefined],
    [title |-> "str:b", description |-> "str:d", complete |-> JsTrue],
    [title |-> "str:a", description |-> Undefined, complete |-> "arr:[true]"] }

NoBody == [title |-> Undefined, description |-> Undefined, complete |-> Undefined]

\* req.query.complete: absent, or the string given in the URL.
QueryValues == {Undefined, "str:true", "str:false"}

\* req.params.id: the string form of the first identifier insertOne assigns,
\* and a string that is no identifier.
IdStrings == {"a", "not-a-valid-id"}

\* req.params.id of Get: also the upper-case spelling of that identifier.
GetIdStrings == IdStrings \cup {"A"}

-----------------------------------------------------------------------------
(* ObjectId *)

HexLower == <<"0", "1", "2", "3", "4", "5", "6", "7", "8", "9", "a", "b", "c", "d", "e", "f">>
HexUpper == <<"0", "1", "2", "3", "4", "5", "6", "7", "8", "9", "A", "B", "C", "D", "E", "F">>

\* ObjectId.isValid on a string: hexadecimal digits of either case.
\* Variant: the string is not validated.
IsHexString_Any(s) == TRUE

IsHexString(s) == \E n \in 1..16 : HexLower[n] = s \/ HexUpper[n] = s

\* objectId.toString(): lower-case hexadecimal.
ToHexString(oid) == HexLower[oid + 1]

\* new ObjectId(id) for a string that is valid.
FromHexString(s) ==
  IF \E n \in 1..16 : HexLower[n] = s \/ HexUpper[n] = s
  THEN (CHOOSE n \in 1..16 : HexLower[n] = s \/ HexUpper[n] = s) - 1
  ELSE 0

\* The message of the error new ObjectId(id) throws.
ObjectIdErrorMessage == <<"input must be a 24 character hex string, 12 byte Uint8Array, or an integer">>

-----------------------------------------------------------------------------
(* Documents and the collection calls *)

\* The filter of the query {}.
NoFilter == "{}"

\* Lines 46-52: the query List builds from req.query.complete.
ListQuery(complete) ==
  IF complete # Undefined
  THEN [complete |-> IF complete = "str:true" THEN JsTrue ELSE JsFalse]
  ELSE [complete |-> NoFilter]

\* MongoDB's equality match {complete: b}: the field equals b, or the field
\* is an array with an element equal to b.  {} matches every document.
Matches(doc, query) ==
  \/ query.complete = NoFilter
  \/ doc.complete = query.complete
  \/ query.complete \in ArrayElements(doc.complete)

RECURSIVE InOrder(_, _)
\* The documents of coll with identifiers in ids, in natural (insertion) order.
InOrder(coll, ids) ==
  IF ids = {} THEN <<>>
  ELSE LET m == CHOOSE x \in ids : \A y \in ids : x <= y
       IN <<coll[m]>> \o InOrder(coll, ids \ {m})

\* taskCollection.find(query).toArray()
Find(coll, query) ==
  InOrder(coll, {i \in DOMAIN coll : Matches(coll[i], query)})

\* taskCollection.findOne({_id: oid}): the document, or nothing (null).
FindOne(coll, oid) == IF oid \in DOMAIN coll THEN <<coll[oid]>> ELSE <<>>

\* Variant: the copy without the added id.
transformTaskDocument_NoId(doc) == doc

\* Lines 32-42.
transformTaskDocument(doc) == [doc EXCEPT !.id = ToHexString(doc._id)]

\* Variant: the optional fields are taken as given.
NewTask_NoDefaults(body, date) ==
  [title |-> body.title,
   description |-> body.description,
   complete |-> body.complete,
   createdAt |-> date,
   updatedAt |-> date]

\* Lines 96-102: the task Create inserts.
NewTask(body, date) ==
  [title |-> body.title,
   description |-> Or(body.description, EmptyString),
   complete |-> Or(body.complete, JsFalse),
   createdAt |-> date,
   updatedAt |-> date]

\* taskCollection.insertOne(task) with the identifier the driver generated.
InsertOne(coll, task, oid) ==
  [i \in DOMAIN coll \cup {oid} |->
     IF i = oid
     THEN [_id |-> oid,
           title |-> BsonValue(task.title),
           description |-> BsonValue(task.description),
           complete |-> BsonValue(task.complete),
           createdAt |-> task.createdAt,
           updatedAt |-> task.updatedAt,
           id |-> Undefined]
     ELSE coll[i]]

\* Lines 126-133: the $set of Update.
UpdateDoc(body, date) ==
  [title |-> body.title,
   description |-> body.description,
   complete |-> body.complete,
   updatedAt |-> date]

\* Variant: a partial merge, a field that is undefined keeps its value.
ApplySet_Merge(doc, set) ==
  [doc EXCEPT !.title = IF set.title = Undefined THEN @ ELSE set.title,
              !.description = IF set.description = Undefined THEN @ ELSE set.description,
              !.complete = IF set.complete = Undefined THEN @ ELSE set.complete,
              !.updatedAt = set.updatedAt]

\* The effect of {$set: set} on one document.
ApplySet(doc, set) ==
  [doc EXCEPT !.title = BsonValue(set.title),
              !.description = BsonValue(set.description),
              !.complete = BsonValue(set.complete),
              !.updatedAt = set.updatedAt]

\* Variant: the update is an upsert, a document that is missing is inserted.
FindOneAndUpdate_Upsert(coll, oid, set) ==
  [i \in DOMAIN coll \cup {oid} |->
     IF i = oid
     THEN IF oid \in DOMAIN coll
          THEN ApplySet(coll[i], set)
          ELSE [_id |-> oid,
                title |-> BsonValue(set.title),
                description |-> BsonValue(set.description),
                complete |-> BsonValue(set.complete),
                createdAt |-> set.updatedAt,
                updatedAt |-> set.updatedAt,
                id |-> Undefined]
     ELSE coll[i]]

\* Variant: the filter is dropped, every document is updated.
FindOneAndUpdate_Many(coll, oid, set) ==
  [i \in DOMAIN coll |-> ApplySet(coll[i], set)]

\* taskCollection.findOneAndUpdate({_id: oid}, {$set: set}): the collection after it.
FindOneAndUpdate(coll, oid, set) ==
  [i \in DOMAIN coll |-> IF i = oid THEN ApplySet(coll[i], set) ELSE coll[i]]

\* Variant: the document is kept.
DeleteOne_Nothing(coll, oid) == coll

\* taskCollection.deleteOne({_id: oid}): the collection after it.
DeleteOne(coll, oid) == [i \in DOMAIN coll \ {oid} |-> coll[i]]

\* result.deletedCount
DeletedCount(coll, oid) == IF oid \in DOMAIN coll THEN 1 ELSE 0

-----------------------------------------------------------------------------
(* Responses *)

NoResponse == [status |-> 0, kind |-> "none", text |-> <<>>, docs |-> <<>>]

\* res.status(status).json({error: text})
ErrorResponse(status, text) ==
  [status |-> status, kind |-> "error", text |-> text, docs |-> <<>>]

\* res.status(status).json(doc) for one document or null.
TaskResponse(status, docs) ==
  [status |-> status, kind |-> IF docs = <<>> THEN "null" ELSE "task",
   text |-> <<>>, docs |-> docs]

\* res.json(array)
ArrayResponse(docs) ==
  [status |-> 200, kind |-> "array", text |-> <<>>, docs |-> docs]

\* `Task with ID ${id} not found`
NotFoundMessage(id) == <<"Task with ID ", id, " not found">>

\* Lines 75-82 and 145-152: the answer of Get and Update for what the call returned.
FoundResponse(id, found) ==
  IF found = <<>>
  THEN ErrorResponse(404, NotFoundMessage(id))
  ELSE TaskResponse(200, <<transformTaskDocument(found[1])>>)

\* Variant: a read-back that finds nothing is answered as not found.
CreatedResponse_NotFound(found) ==
  IF found = <<>>
  THEN ErrorResponse(404, <<"Task not found">>)
  ELSE TaskResponse(201, found)

\* Line 111: the answer of Create for what the read-back returned.
CreatedResponse(found) == TaskResponse(201, found)

\* The message of the error a rejected collection call throws.
StorageErrorMessage == <<"storage error">>

\* Variant: the catch answers as if nothing was found.
CaughtResponse_NotFound(message) == ErrorResponse(404, message)

\* Lines 59-63, 83-85, 112-114, 153-155, 172-174: the answer of a catch block.
CaughtResponse(message) == ErrorResponse(500, message)

\* Variant: the catch of Create removes the task its insert added.
CreateCatch_Compensates(coll, oid) == [i \in DOMAIN coll \ {oid} |-> coll[i]]

\* Lines 112-114: the collection after the catch of Create, which only answers.
CreateCatch(coll, oid) == coll

\* Lines 167-171: the answer of Delete.
DeleteResponse(id, deletedCount) ==
  IF deletedCount = 0
  THEN ErrorResponse(404, NotFoundMessage(id))
  ELSE [status |-> 200, kind |-> "message",
        text |-> <<"Task deleted successfully">>, docs |-> <<>>]

-----------------------------------------------------------------------------
(* State *)

VARIABLES
  taskCollection,  \* the "tasks" collection: ObjectId -> stored document
  nextId,          \* the ObjectId the driver generates for the next insert
  now,             \* the wall clock
  req              \* per connection: the request and its handler's position

vars == <<taskCollection, nextId, now, req>>

Idle ==
  [pc |-> "idle", op |-> "none", id |-> Undefined, body |-> NoBody,
   complete |-> Undefined, date |-> 0, objectId |-> 0,
   calls |-> 0, failed |-> FALSE, after |-> {}, res |-> NoResponse]

Init ==
  /\ taskCollection = <<>>
  /\ nextId = 10
  /\ now = 0
  /\ req = [c \in Clients |-> Idle]

\* The handler of c has sent its response.
Respond(c, r, response) ==
  req' = [req EXCEPT ![c] = [r EXCEPT !.pc = "done", !.res = response]]

\* The handler of c is suspended in an awaited collection call.
Await(c, r, call) ==
  req' = [req EXCEPT ![c] = [r EXCEPT !.pc = call]]

\* The awaited call of c's handler has been made.
Called(c) == [req[c] EXCEPT !.calls = @ + 1]

\* The awaited call of c's handler has been made and was rejected.
Rejected(c) == [req[c] EXCEPT !.calls = @ + 1, !.failed = TRUE]

\* Express calls the handler of the request on connection c: the requests on
\* the connections before it have arrived.
Arrives(c) ==
  /\ req[c].pc = "idle"
  /\ \A d \in Clients : d < c => req[d].pc # "idle"

\* The request of c as it arrives, with the connections answered before it.
Request(c, op) ==
  [req[c] EXCEPT !.op = op, !.after = {d \in Clients : req[d].pc = "done"}]

\* new Date(): the clock has not gone back since it was last read.
ReadClock(date) ==
  /\ date \in now..MaxTime
  /\ now' = date

-----------------------------------------------------------------------------
(* GET /api/tasks, lines 44-64 *)

ListStart(c, complete) ==
  /\ Arrives(c)
  /\ Await(c, [Request(c, "list") EXCEPT !.complete = complete], "find")
  /\ UNCHANGED <<taskCollection, nextId, now>>

ListFind(c) ==
  /\ req[c].pc = "find"
  /\ LET query == ListQuery(req[c].complete)
         tasks == Find(taskCollection, query)
         transformedTasks == [k \in DOMAIN tasks |-> transformTaskDocument(tasks[k])]
     IN Respond(c, Called(c), ArrayResponse(transformedTasks))
  /\ UNCHANGED <<taskCollection, nextId, now>>

(* GET /api/tasks/:id, lines 66-86 *)

GetStart(c, id) ==
  /\ Arrives(c)
  /\ LET r == [Request(c, "get") EXCEPT !.id = id]
     IN IF IsHexString(id)
        THEN Await(c, [r EXCEPT !.objectId = FromHexString(id)], "findOne")
        ELSE Respond(c, r, ErrorResponse(500, ObjectIdErrorMessage))
  /\ UNCHANGED <<taskCollection, nextId, now>>

GetFindOne(c) ==
  /\ req[c].pc = "findOne"
  /\ LET task == FindOne(taskCollection, req[c].objectId)
     IN Respond(c, Called(c), FoundResponse(req[c].id, task))
  /\ UNCHANGED <<taskCollection, nextId, now>>

(* POST /api/tasks, lines 88-115 *)

CreateStart(c, body, date) ==
  /\ Arrives(c)
  /\ LET r == [Request(c, "create") EXCEPT !.body = body]
     IN IF ~Truthy(body.title)
        THEN /\ Respond(c, r, ErrorResponse(400, <<"Title is required">>))
             /\ UNCHANGED now
        ELSE /\ ReadClock(date)
             /\ Await(c, [r EXCEPT !.date = date], "insertOne")
  /\ UNCHANGED <<taskCollection, nextId>>

CreateInsertOne(c) ==
  /\ req[c].pc = "insertOne"
  /\ taskCollection' = InsertOne(taskCollection, NewTask(req[c].body, req[c].date), nextId)
  /\ nextId' = nextId + 1
  /\ Await(c, [Called(c) EXCEPT !.objectId = nextId], "readBack")
  /\ UNCHANGED now

CreateFindOne(c) ==
  /\ req[c].pc = "readBack"
  /\ LET insertedTask == FindOne(taskCollection, req[c].objectId)
     IN Respond(c, Called(c), CreatedResponse(insertedTask))
  /\ UNCHANGED <<taskCollection, nextId, now>>

(* PUT /api/tasks/:id, lines 117-156 *)

UpdateStart(c, id, body, date) ==
  /\ Arrives(c)
  /\ LET r == [Request(c, "update") EXCEPT !.id = id, !.body = body]
     IN IF IsHexString(id)
        THEN /\ ReadClock(date)
             /\ Await(c, [r EXCEPT !.objectId = FromHexString(id), !.date = date],
                      "findOneAndUpdate")
        ELSE /\ Respond(c, r, ErrorResponse(500, ObjectIdErrorMessage))
             /\ UNCHANGED now
  /\ UNCHANGED <<taskCollection, nextId>>

UpdateFindOneAndUpdate(c) ==
  /\ req[c].pc = "findOneAndUpdate"
  /\ taskCollection' = FindOneAndUpdate(taskCollection, req[c].objectId,
                                        UpdateDoc(req[c].body, req[c].date))
  /\ LET updatedTask == FindOne(taskCollection', req[c].objectId)
     IN Respond(c, Called(c), FoundResponse(req[c].id, updatedTask))
  /\ UNCHANGED <<nextId, now>>

(* DELETE /api/tasks/:id, lines 158-175 *)

DeleteStart(c, id) ==
  /\ Arrives(c)
  /\ LET r == [Request(c, "delete") EXCEPT !.id = id]
     IN IF IsHexString(id)
        THEN Await(c, [r EXCEPT !.objectId = FromHexString(id)], "deleteOne")
        ELSE Respond(c, r, ErrorResponse(500, ObjectIdErrorMessage))
  /\ UNCHANGED <<taskCollection, nextId, now>>

DeleteDeleteOne(c) ==
  /\ req[c].pc = "deleteOne"
  /\ taskCollection' = DeleteOne(taskCollection, req[c].objectId)
  /\ Respond(c, Called(c),
             DeleteResponse(req[c].id, DeletedCount(taskCollection, req[c].objectId)))
  /\ UNCHANGED <<nextId, now>>

-----------------------------------------------------------------------------

Next ==
  \/ \E c \in Clients : \E complete \in QueryValues : ListStart(c, complete)
  \/ \E c \in Clients : ListFind(c)
  \/ \E c \in Clients : \E id \in GetIdStrings : GetStart(c, id)
  \/ \E c \in Clients : GetFindOne(c)
  \/ \E c \in Clients : \E body \in Bodies : \E date \in 0..MaxTime : CreateStart(c, body, date)
  \/ \E c \in Clients : CreateInsertOne(c)
  \/ \E c \in Clients : CreateFindOne(c)
  \/ \E c \in Clients : \E id \in IdStrings : \E body \in Bodies : \E date \in 0..MaxTime :
        UpdateStart(c, id, body, date)
  \/ \E c \in Clients : UpdateFindOneAndUpdate(c)
  \/ \E c \in Clients : \E id \in IdStrings : DeleteStart(c, id)
  \/ \E c \in Clients : DeleteDeleteOne(c)

Spec == Init /\ [][Next]_vars

-----------------------------------------------------------------------------
(* Collection calls that are rejected: the await throws into the catch block
   of the handler.  A rejected call has not changed the collection. *)

\* The connections of the runs in which collection calls may be rejected.
FailClients == {1, 2}

\* Lines 54, 59-63.
ListFindFails(c) ==
  /\ req[c].pc = "find"
  /\ Respond(c, Rejected(c), CaughtResponse(StorageErrorMessage))
  /\ UNCHANGED <<taskCollection, nextId, now>>

\* Lines 73, 83-85.
GetFindOneFails(c) ==
  /\ req[c].pc = "findOne"
  /\ Respond(c, Rejected(c), CaughtResponse(StorageErrorMessage))
  /\ UNCHANGED <<taskCollection, nextId, now>>

\* Lines 104, 112-114.
CreateInsertOneFails(c) ==
  /\ req[c].pc = "insertOne"
  /\ taskCollection' = CreateCatch(taskCollection, nextId)
  /\ Respond(c, Rejected(c), CaughtResponse(StorageErrorMessage))
  /\ UNCHANGED <<nextId, now>>

\* Lines 107-109, 112-114.
CreateFindOneFails(c) ==
  /\ req[c].pc = "readBack"
  /\ taskCollection' = CreateCatch(taskCollection, req[c].objectId)
  /\ Respond(c, Rejected(c), CaughtResponse(StorageErrorMessage))
  /\ UNCHANGED <<nextId, now>>

\* Lines 136-140, 153-155.
UpdateFindOneAndUpdateFails(c) ==
  /\ req[c].pc = "findOneAndUpdate"
  /\ Respond(c, Rejected(c), CaughtResponse(StorageErrorMessage))
  /\ UNCHANGED <<taskCollection, nextId, now>>

\* Lines 165, 172-174.
DeleteDeleteOneFails(c) ==
  /\ req[c].pc = "deleteOne"
  /\ Respond(c, Rejected(c), CaughtResponse(StorageErrorMessage))
  /\ UNCHANGED <<taskCollection, nextId, now>>

\* The awaited collection call of c's handler returns or is rejected.
CallEnds(c) ==
  \/ ListFind(c) \/ ListFindFails(c)
  \/ GetFindOne(c) \/ GetFindOneFails(c)
  \/ CreateInsertOne(c) \/ CreateInsertOneFails(c)
  \/ CreateFindOne(c) \/ CreateFindOneFails(c)
  \/ UpdateFindOneAndUpdate(c) \/ UpdateFindOneAndUpdateFails(c)
  \/ DeleteDeleteOne(c) \/ DeleteDeleteOneFails(c)

NextF ==
  \/ \E c \in FailClients : \E complete \in QueryValues : ListStart(c, complete)
  \/ \E c \in FailClients : ListFind(c)
  \/ \E c \in FailClients : ListFindFails(c)
  \/ \E c \in FailClients : \E id \in GetIdStrings : GetStart(c, id)
  \/ \E c \in FailClients : GetFindOne(c)
  \/ \E c \in FailClients : GetFindOneFails(c)
  \/ \E c \in FailClients : \E body \in Bodies : \E date \in 0..MaxTime :
        CreateStart(c, body, date)
  \/ \E c \in FailClients : CreateInsertOne(c)
  \/ \E c \in FailClients : CreateInsertOneFails(c)
  \/ \E c \in FailClients : CreateFindOne(c)
  \/ \E c \in FailClients : CreateFindOneFails(c)
  \/ \E c \in FailClients : \E id \in IdStrings : \E body \in Bodies : \E date \in 0..MaxTime :
        UpdateStart(c, id, body, date)
  \/ \E c \in FailClients : UpdateFindOneAndUpdate(c)
  \/ \E c \in FailClients : UpdateFindOneAndUpdateFails(c)
  \/ \E c \in FailClients : \E id \in IdStrings : DeleteStart(c, id)
  \/ \E c \in FailClients : DeleteDeleteOne(c)
  \/ \E c \in FailClients : DeleteDeleteOneFails(c)

\* Every collection call that is awaited returns or is rejected in the end.
SpecF ==
  /\ Init
  /\ [][NextF]_vars
  /\ \A c \in FailClients : WF_vars(CallEnds(c))

-----------------------------------------------------------------------------
(* Vocabulary of the properties *)

\* In this step the call the handler of c awaits returns and c is answered.
Returns(c, call) == req[c].pc = call /\ req'[c].pc = "done"

\* In this step the request of c arrives.
Received(c, op) == req[c].pc = "idle" /\ req'[c].op = op

\* c has been answered.
Answered(c, op) == req[c].op = op /\ req[c].pc = "done"

\* A request op on the identifier oid has arrived.
Arrived(op, oid) ==
  \E d \in Clients :
    /\ req[d].op = op
    /\ req[d].id \in {"a", "A"}
    /\ req[d].objectId = oid

\* The identifiers insertOne has assigned so far.
Assigned == {oid \in 10..15 : oid < nextId}

\* The identifiers of the tasks that were deleted.
Deleted == Assigned \ DOMAIN taskCollection

\* The fields a stored document and a response document share.
SameStoredFields(a, b) ==
  /\ a._id = b._id
  /\ a.title = b.title
  /\ a.description = b.description
  /\ a.complete = b.complete
  /\ a.createdAt = b.createdAt
  /\ a.updatedAt = b.updatedAt

-----------------------------------------------------------------------------
(* C1 *)

C1_Get(c, g, guarded) ==
  LET created == req[c].res.docs[1]
      answer == req'[g].res
  IN ( /\ Answered(c, "create")
       /\ req[c].res.status = 201
       /\ req[c].res.docs # <<>>
       /\ req[g].op = "get"
       /\ c \in req[g].after
       /\ Returns(g, "findOne")
       /\ req[g].objectId = req[c].res.docs[1]._id
       /\ ~Arrived("delete", created._id)
       /\ guarded => ~Arrived("update", created._id) )
     => /\ answer.status = 200
        /\ answer.docs # <<>>
        /\ answer.docs[1].title = req[c].body.title
        /\ req[c].body.complete = Undefined => answer.docs[1].complete = JsFalse
        /\ req[c].body.description = Undefined => answer.docs[1].description = EmptyString

\* C1 as stated: a Get by the identifier a Create with a non-empty title
\* returned with 201, which arrives after that answer and whose lookup runs
\* before any Delete of that identifier has arrived, is answered 200 with the title of the Create, complete false
\* and description "" when the Create omitted them.
C1_AsStated == [][\A c, g \in Clients : C1_Get(c, g, FALSE)]_vars

\* C1 as amended: the same, for a Get whose lookup runs before any Delete and
\* before any Update of that identifier has arrived.
C1_CreateThenGet == [][\A c, g \in Clients : C1_Get(c, g, TRUE)]_vars

C1_Witness ==
  \E c, g \in Clients :
    /\ Answered(c, "create") /\ req[c].res.status = 201 /\ req[c].res.docs # <<>>
    /\ req[c].body.title = "str:a"
    /\ req[c].body.complete = Undefined /\ req[c].body.description = Undefined
    /\ Answered(g, "get") /\ c \in req[g].after
    /\ req[g].objectId = req[c].res.docs[1]._id
    /\ ~Arrived("delete", req[g].objectId) /\ ~Arrived("update", req[g].objectId)
    /\ req[g].res.status = 200
    /\ req[g].res.docs[1].title = "str:a"
    /\ req[g].res.docs[1].complete = JsFalse
    /\ req[g].res.docs[1].description = EmptyString

-----------------------------------------------------------------------------
(* C2 *)

\* C2: a List with complete="true" is answered with tasks whose complete is
\* exactly true only, a List with any other value of complete with tasks whose
\* complete is exactly false only, and a List with no complete parameter with
\* every task of the collection.
C2_ListFilter ==
  [][\A c \in Clients :
       Returns(c, "find") =>
         LET docs == req'[c].res.docs
             complete == req[c].complete
         IN /\ req'[c].res.status = 200
            /\ complete = "str:true" =>
                 \A k \in DOMAIN docs : docs[k].complete = JsTrue
            /\ complete \notin {Undefined, "str:true"} =>
                 \A k \in DOMAIN docs : docs[k].complete = JsFalse
            /\ complete = Undefined =>
                 /\ {docs[k]._id : k \in DOMAIN docs} = DOMAIN taskCollection
                 /\ Len(docs) = Cardinality(DOMAIN taskCollection)]_vars

-----------------------------------------------------------------------------
(* C3 *)

\* The stored value is the one supplied, or empty for a field left out.
Replaced(supplied, stored) ==
  IF supplied = Undefined THEN stored \in {Null, Undefined} ELSE stored = supplied

\* C3: an Update of an existing task is answered 200 and leaves title,
\* description and complete equal to the values of the request body, empty
\* where the body omits the field; a task whose complete was true has it no
\* longer true after an Update that omits complete.
C3_UpdateReplaces ==
  [][\A c \in Clients :
       (Returns(c, "findOneAndUpdate") /\ req[c].objectId \in DOMAIN taskCollection) =>
         LET body == req[c].body
             before == taskCollection[req[c].objectId]
             stored == taskCollection'[req[c].objectId]
             answer == req'[c].res
         IN /\ answer.status = 200
            /\ answer.docs # <<>>
            /\ Replaced(body.title, stored.title)
            /\ Replaced(body.description, stored.description)
            /\ Replaced(body.complete, stored.complete)
            /\ SameStoredFields(answer.docs[1], stored)
            /\ (body.complete = Undefined /\ before.complete = JsTrue) =>
                 stored.complete # JsTrue]_vars

C3_Witness ==
  \E c, u \in Clients :
    /\ Answered(c, "create") /\ req[c].res.status = 201 /\ req[c].res.docs # <<>>
    /\ req[c].res.docs[1].complete = JsTrue
    /\ Answered(u, "update") /\ c \in req[u].after
    /\ req[u].objectId = req[c].res.docs[1]._id
    /\ req[u].body.complete = Undefined
    /\ req[u].body.title = "str:a"
    /\ req[u].res.status = 200
    /\ req[u].res.docs[1].title = "str:a"
    /\ req[u].res.docs[1].complete = Null
    /\ req[u].objectId \in DOMAIN taskCollection
    /\ taskCollection[req[u].objectId].complete = Null

-----------------------------------------------------------------------------
(* C4 *)

\* C4: a Delete of an existing task is answered 200 with the message "Task
\* deleted successfully" and removes that task and no other; a Get, Update or
\* Delete of a deleted identifier is answered 404 and changes nothing; a
\* deleted task is never stored again and is in no List answer.
C4_DeleteIsPermanent ==
  [][/\ \A c \in Clients :
          (Returns(c, "deleteOne") /\ req[c].objectId \in DOMAIN taskCollection) =>
            /\ req'[c].res.status = 200
            /\ req'[c].res.kind = "message"
            /\ req'[c].res.text = <<"Task deleted successfully">>
            /\ DOMAIN taskCollection' = DOMAIN taskCollection \ {req[c].objectId}
            /\ \A i \in DOMAIN taskCollection' : taskCollection'[i] = taskCollection[i]
     /\ \A c \in Clients :
          ( /\ \/ Returns(c, "findOne")
               \/ Returns(c, "findOneAndUpdate")
               \/ Returns(c, "deleteOne")
            /\ req[c].objectId \in Deleted ) =>
            /\ req'[c].res.status = 404
            /\ req'[c].res.kind = "error"
            /\ req'[c].res.text = <<"Task with ID ", req[c].id, " not found">>
            /\ taskCollection' = taskCollection
     /\ \A oid \in Deleted : oid \notin DOMAIN taskCollection'
     /\ \A c \in Clients :
          Returns(c, "find") =>
            \A k \in DOMAIN req'[c].res.docs : req'[c].res.docs[k]._id \notin Deleted]_vars

C4_Witness ==
  \E c, d, e \in Clients :
    /\ Answered(c, "create") /\ req[c].res.status = 201 /\ req[c].res.docs # <<>>
    /\ Answered(d, "delete") /\ c \in req[d].after
    /\ req[d].objectId = req[c].res.docs[1]._id
    /\ req[d].res.status = 200
    /\ req[d].res.text = <<"Task deleted successfully">>
    /\ req[e].op \in {"get", "update", "delete"} /\ req[e].pc = "done"
    /\ d \in req[e].after
    /\ req[e].objectId = req[d].objectId
    /\ req[e].res.status = 404
    /\ req[d].objectId \in Deleted

-----------------------------------------------------------------------------
(* C5 *)

\* C5: a Create whose title is missing or falsy is answered at once with 400
\* and the error "Title is required", has made no collection call, and leaves
\* the collection as it was.
C5_TitleRequired ==
  [][\A c \in Clients :
       (Received(c, "create") /\ req'[c].body.title \in Falsy) =>
         /\ req'[c].pc = "done"
         /\ req'[c].res.status = 400
         /\ req'[c].res.kind = "error"
         /\ req'[c].res.text = <<"Title is required">>
         /\ req'[c].calls = 0
         /\ taskCollection' = taskCollection
         /\ nextId' = nextId]_vars

C5_Witness ==
  \E c, d \in Clients :
    /\ Answered(c, "create") /\ req[c].body.title = Undefined
    /\ req[c].res.status = 400 /\ req[c].calls = 0
    /\ Answered(d, "create") /\ req[d].body.title = EmptyString
    /\ req[d].res.status = 400 /\ req[d].calls = 0
    /\ taskCollection # <<>>

-----------------------------------------------------------------------------
(* C6 *)

\* C6: a Get, Update or Delete whose identifier string is no ObjectId is
\* answered at once with 500, has made no collection call, and leaves the
\* collection as it was.
C6_MalformedIdentifier ==
  [][\A c \in Clients :
       ( /\ \/ Received(c, "get")
            \/ Received(c, "update")
            \/ Received(c, "delete")
         /\ req'[c].id = "not-a-valid-id" ) =>
         /\ req'[c].pc = "done"
         /\ req'[c].res.status = 500
         /\ req'[c].res.kind = "error"
         /\ req'[c].calls = 0
         /\ taskCollection' = taskCollection]_vars

C6_Witness ==
  \E c, d, e \in Clients :
    /\ Answered(c, "get") /\ req[c].id = "not-a-valid-id"
    /\ req[c].res.status = 500 /\ req[c].calls = 0
    /\ Answered(d, "update") /\ req[d].id = "not-a-valid-id"
    /\ req[d].res.status = 500 /\ req[d].calls = 0
    /\ Answered(e, "delete") /\ req[e].id = "not-a-valid-id"
    /\ req[e].res.status = 500 /\ req[e].calls = 0

-----------------------------------------------------------------------------
(* C7 *)

\* C7: an Update of an existing task keeps the identifier and createdAt of the
\* task, sets its updatedAt to the time the Update read the clock, and leaves
\* every other task as it was.
C7_UpdateFrame ==
  [][\A c \in Clients :
       (Returns(c, "findOneAndUpdate") /\ req[c].objectId \in DOMAIN taskCollection) =>
         LET oid == req[c].objectId
         IN /\ req'[c].res.status = 200
            /\ DOMAIN taskCollection' = DOMAIN taskCollection
            /\ taskCollection'[oid]._id = taskCollection[oid]._id
            /\ taskCollection'[oid].createdAt = taskCollection[oid].createdAt
            /\ taskCollection'[oid].updatedAt = req[c].date
            /\ \A i \in DOMAIN taskCollection \ {oid} :
                 taskCollection'[i] = taskCollection[i]]_vars

C7_Witness ==
  \E u \in Clients :
    /\ Answered(u, "update") /\ req[u].res.status = 200
    /\ Cardinality(DOMAIN taskCollection) = 2
    /\ req[u].objectId \in DOMAIN taskCollection
    /\ taskCollection[req[u].objectId].updatedAt = req[u].date
    /\ taskCollection[req[u].objectId].createdAt < req[u].date
    /\ \A i \in DOMAIN taskCollection \ {req[u].objectId} :
         taskCollection[i].updatedAt = taskCollection[i].createdAt

-----------------------------------------------------------------------------
(* C8 *)

C8_Get(c, sameString) ==
  Returns(c, "findOne") =>
    LET oid == req[c].objectId
        id == req[c].id
        answer == req'[c].res
    IN /\ answer.status = 200 <=> oid \in DOMAIN taskCollection
       /\ oid \in DOMAIN taskCollection =>
            /\ answer.kind = "task"
            /\ SameStoredFields(answer.docs[1], taskCollection[oid])
            /\ \E n \in DOMAIN HexLower : answer.docs[1].id = HexLower[n] /\ n = oid + 1
            /\ FromHexString(id) = oid
            /\ sameString => answer.docs[1].id = id
       /\ oid \notin DOMAIN taskCollection =>
            /\ answer.status = 404
            /\ answer.kind = "error"
            /\ answer.text = <<"Task with ID ", id, " not found">>

\* C8 as stated: a Get by a well-formed identifier is answered 200 exactly
\* when the task is stored at the lookup, with the stored fields and an id
\* that is the string form of the storage identifier and the very string the
\* request gave; else 404 with "Task with ID <id> not found".
C8_AsStated == [][\A c \in Clients : C8_Get(c, TRUE)]_vars

\* C8 as amended: the same, with an id that is the lower-case string form of
\* the storage identifier; the string the request gave parses to that
\* identifier, and need not be the same string.
C8_GetByIdentifier == [][\A c \in Clients : C8_Get(c, FALSE)]_vars

C8_Witness ==
  \E c, g \in Clients :
    /\ Answered(g, "get") /\ req[g].id = "A"
    /\ req[g].res.status = 200
    /\ req[g].res.docs[1].id = "a"
    /\ req[g].res.docs[1]._id = 10
    /\ Answered(c, "get") /\ req[c].id = "a"
    /\ req[c].res.status = 404
    /\ req[c].res.text = <<"Task with ID ", "a", " not found">>

-----------------------------------------------------------------------------
(* C9 *)

\* The read-back of c's Create returns after a Delete removed the new task.
C9_DeletedBeforeReadBack(c) ==
  /\ Returns(c, "readBack")
  /\ req[c].objectId \notin DOMAIN taskCollection
  /\ \E d \in Clients :
       /\ Answered(d, "delete")
       /\ req[d].objectId = req[c].objectId
       /\ req[d].res.status = 200

-----------------------------------------------------------------------------
(* C10 *)

\* C10: every stored task has a non-empty title.
C10_TitleNonEmpty ==
  \A i \in DOMAIN taskCollection :
    taskCollection[i].title \notin {Undefined, Null, EmptyString}

-----------------------------------------------------------------------------
(* C11 *)

\* The handler of c waits for a collection call.
Awaiting(c) == req[c].pc \notin {"idle", "done"}

\* C11: every request that has arrived is answered in the end, given that
\* every collection call returns or is rejected in the end; it is answered
\* once (nothing is sent before the answer and the answer never changes); a
\* rejected collection call is answered at once with 500 and the message of
\* the error, and no further call is made for the request.
C11_AnsweredOnce ==
  /\ \A c \in FailClients : (req[c].pc # "idle") ~> (req[c].pc = "done")
  /\ [](\A c \in Clients : req[c].pc # "done" => req[c].res = NoResponse)
  /\ [][\A c \in Clients :
          /\ req[c].pc = "done" => req'[c] = req[c]
          /\ (Awaiting(c) /\ req'[c].failed) =>
               /\ req'[c].pc = "done"
               /\ req'[c].res.status = 500
               /\ req'[c].res.kind = "error"
               /\ req'[c].res.text = StorageErrorMessage
               /\ req'[c].calls = req[c].calls + 1]_vars

C11_Witness ==
  \E c, d \in FailClients :
    /\ Answered(c, "create") /\ req[c].failed /\ req[c].calls = 2
    /\ req[c].res.status = 500
    /\ Answered(d, "delete") /\ req[d].failed /\ req[d].calls = 1
    /\ req[d].res.status = 500
    /\ c \notin req[d].after /\ d \notin req[c].after

-----------------------------------------------------------------------------
(* C12 *)

\* The document has the title, description and complete of the body of u.
FieldsOf(u, doc) ==
  /\ Replaced(req[u].body.title, doc.title)
  /\ Replaced(req[u].body.description, doc.description)
  /\ Replaced(req[u].body.complete, doc.complete)

\* u and v are answered Updates of the task a Create was answered with, both
\* arrived after that answer, and no Delete of the task has arrived.
C12_BothUpdated(c, u, v) ==
  /\ u # v
  /\ Answered(c, "create") /\ req[c].res.status = 201 /\ req[c].res.docs # <<>>
  /\ Answered(u, "update") /\ Answered(v, "update")
  /\ c \in req[u].after /\ c \in req[v].after
  /\ req[u].objectId = req[c].res.docs[1]._id
  /\ req[v].objectId = req[c].res.docs[1]._id
  /\ ~Arrived("delete", req[c].res.docs[1]._id)

\* C12: two Updates of the same existing task, in whatever order their calls
\* are applied, are both answered 200, each with the fields of its own body,
\* and the stored title, description and complete (and updatedAt) are those
\* of one of the two requests, never a mixture.
C12_LastWriteWins ==
  \A c, u, v \in Clients :
    C12_BothUpdated(c, u, v) =>
      /\ req[u].res.status = 200 /\ req[u].res.docs # <<>>
      /\ req[v].res.status = 200 /\ req[v].res.docs # <<>>
      /\ FieldsOf(u, req[u].res.docs[1])
      /\ FieldsOf(v, req[v].res.docs[1])
      /\ req[u].objectId \in DOMAIN taskCollection
      /\ \E w \in {u, v} :
           /\ FieldsOf(w, taskCollection[req[w].objectId])
           /\ taskCollection[req[w].objectId].updatedAt = req[w].date
           /\ SameStoredFields(req[w].res.docs[1], taskCollection[req[w].objectId])

C12_Witness ==
  \E c, u, v \in Clients :
    /\ C12_BothUpdated(c, u, v)
    /\ u \notin req[v].after /\ v \notin req[u].after
    /\ req[u].body.title = "str:b" /\ req[u].body.description = "str:d"
    /\ req[v].body.title = "str:a" /\ req[v].body.description = Undefined
    /\ req[u].res.status = 200 /\ req[v].res.status = 200
    /\ taskCollection[req[u].objectId].title = "str:b"
    /\ taskCollection[req[u].objectId].description = "str:d"
    /\ u > v

-----------------------------------------------------------------------------
(* C13 *)

\* C13: an Update whose identifier is well-formed and matches no stored task
\* is answered 404 with "Task with ID <id> not found" and leaves the
\* collection as it was; an identifier enters the collection only in the
\* insert of a Create and leaves it only in the call of a Delete.
C13_UpdateNeverCreates ==
  [][/\ \A c \in Clients :
          (Returns(c, "findOneAndUpdate") /\ req[c].objectId \notin DOMAIN taskCollection) =>
            /\ req'[c].res.status = 404
            /\ req'[c].res.kind = "error"
            /\ req'[c].res.text = <<"Task with ID ", req[c].id, " not found">>
            /\ taskCollection' = taskCollection
     /\ \A oid \in DOMAIN taskCollection' \ DOMAIN taskCollection :
          \E c \in Clients :
            /\ req[c].op = "create"
            /\ req[c].pc = "insertOne" /\ req'[c].pc = "readBack"
            /\ req'[c].objectId = oid
     /\ \A oid \in DOMAIN taskCollection \ DOMAIN taskCollection' :
          \E c \in Clients :
            /\ req[c].op = "delete"
            /\ Returns(c, "deleteOne")
            /\ req[c].objectId = oid]_vars

C13_Witness ==
  \E u, v, c \in Clients :
    /\ Answered(u, "update") /\ req[u].id = "a"
    /\ req[u].res.status = 404
    /\ req[u].after = {}
    /\ Answered(v, "update") /\ req[v].objectId = req[u].objectId
    /\ req[v].res.status = 200
    /\ Answered(c, "create") /\ req[c].res.docs # <<>>
    /\ req[c].res.docs[1]._id = req[u].objectId
    /\ u \in req[c].after
    /\ DOMAIN taskCollection = {req[u].objectId}

-----------------------------------------------------------------------------
(* C14 *)

\* The Create of c made its insert and was answered from the catch after its
\* read-back was rejected.
C14_ReadBackFailed(c) ==
  /\ Answered(c, "create")
  /\ req[c].failed
  /\ req[c].calls = 2

\* C14: a Create whose insert succeeded and whose read-back is rejected is
\* answered 500 while the collection keeps the new task, which every later
\* unfiltered List that finds it stored returns; a Create is answered 201, 400
\* or 500, of which 201 always follows an insert and only 400 means that no
\* insert was attempted.
C14_CreateNotAtomic ==
  /\ [][\A c \in Clients :
          /\ (req[c].pc = "readBack" /\ req'[c].failed) =>
               /\ req'[c].pc = "done"
               /\ req'[c].res.status = 500
               /\ req'[c].res.kind = "error"
               /\ taskCollection' = taskCollection
          /\ (Received(c, "create") /\ req'[c].res.status = 400) =>
               /\ taskCollection' = taskCollection
               /\ nextId' = nextId
          /\ (Returns(c, "find") /\ ~req'[c].failed /\ req[c].complete = Undefined) =>
               \A d \in Clients :
                 (C14_ReadBackFailed(d) /\ req[d].objectId \in DOMAIN taskCollection) =>
                   \E k \in DOMAIN req'[c].res.docs :
                     /\ req'[c].res.docs[k]._id = req[d].objectId
                     /\ SameStoredFields(req'[c].res.docs[k], taskCollection[req[d].objectId])]_vars
  /\ [](\A c \in Clients :
          Answered(c, "create") =>
            /\ req[c].res.status \in {201, 400, 500}
            /\ req[c].res.status = 400 => req[c].calls = 0
            /\ req[c].res.status = 201 => (req[c].calls = 2 /\ req[c].objectId \in Assigned))

C14_Witness ==
  \E c, l \in FailClients :
    /\ C14_ReadBackFailed(c)
    /\ req[c].res.status = 500
    /\ req[c].objectId \in DOMAIN taskCollection
    /\ Answered(l, "list") /\ c \in req[l].after
    /\ req[l].res.status = 200
    /\ \E k \in DOMAIN req[l].res.docs : req[l].res.docs[k]._id = req[c].objectId

-----------------------------------------------------------------------------
(* C15 *)

\* C15: a stored task whose complete is true or false is returned by the
\* unfiltered List and by exactly the filtered List of its value; a stored
\* task whose complete is neither true nor false is returned by the
\* unfiltered List and by neither filtered List.
C15_NonBooleanComplete ==
  [][\A c \in Clients :
       Returns(c, "find") =>
         LET returned == {req'[c].res.docs[k]._id : k \in DOMAIN req'[c].res.docs}
             complete == req[c].complete
         IN \A i \in DOMAIN taskCollection :
              /\ complete = Undefined => i \in returned
              /\ complete = "str:true" =>
                   (i \in returned <=> taskCollection[i].complete = JsTrue)
              /\ complete \notin {Undefined, "str:true"} =>
                   (i \in returned <=> taskCollection[i].complete = JsFalse)]_vars

====
